---- MODULE Spec2Model ----
(***************************************************************************)
(* A model of screenshots-diff/diffImagesAsync.ts: the image loader, the   *)
(* diff engine (triptych canvas, brightness classification, low resolution *)
(* highlight, positional hash) and the worker's message handler.           *)
(*                                                                         *)
(* Representation.                                                         *)
(*  - A 32 bit pixel word is the tuple of its four bytes in memory order   *)
(*    <<byte0, byte1, byte2, byte3>>.  The decoders store R,G,B,A in that  *)
(*    order, so on a little-endian host the word 0xAABBGGRR is the tuple   *)
(*    <<RR, GG, BB, AA>>.  The Uint8Array and Uint32Array views of one     *)
(*    buffer are then the same function read bytewise or wordwise.         *)
(*  - Typed arrays are functions over 0..n-1, indexed as in the source.    *)
(*  - Thresholds and brightness are kept in thousandths, which makes the   *)
(*    arithmetic exact: brightness*1000 = 299*d1 + 587*d2 + 114*d3 and     *)
(*    threshold*1000 is an integer.                                        *)
(***************************************************************************)
EXTENDS Integers, Sequences, FiniteSets, TLC

VARIABLES baselineFile, candidateFile, first, second,
          inbox, jobs, outbox, crashed

vars == <<baselineFile, candidateFile, first, second, inbox, jobs, outbox, crashed>>
diffVars == <<baselineFile, candidateFile, first, second>>
workerVars == <<inbox, jobs, outbox, crashed>>

(***************************************************************************)
(* Bounds of the model.                                                    *)
(***************************************************************************)
\* The largest decoded image, in pixels (width * height).
MaxPixels == 2
\* The number of job requests the parent sends to one worker.
MaxJobs == 2

(***************************************************************************)
(* Program constants.                                                      *)
(***************************************************************************)
COLOR_COMPONENTS == 4
\* 0.03, in thousandths.
DEFAULT_THRESHOLD == 30
\* 0xff0000ff
COLOR_HIGHLIGHT_ABGR == <<255, 0, 0, 255>>
\* 0x1337
DIFF_HASH_SPREAD == 4919
\* The two sentinels of ./types: distinct negative numbers.
MISSING_BASELINE == -1
MISSING_CANDIDATE == -2

(***************************************************************************)
(* Arithmetic and 32 bit words.                                            *)
(***************************************************************************)
Min(a, b) == IF a < b THEN a ELSE b
Max(a, b) == IF a > b THEN a ELSE b
\* Math.ceil(a / b) for a >= 0, b > 0.
Ceil(a, b) == (a + b - 1) \div b

RECURSIVE BitAnd(_, _)
BitAnd(a, b) ==
    IF a = 0 \/ b = 0 THEN 0
    ELSE ((a % 2) * (b % 2)) + 2 * BitAnd(a \div 2, b \div 2)

RECURSIVE BitOr(_, _)
BitOr(a, b) ==
    IF a = 0 THEN b
    ELSE IF b = 0 THEN a
    ELSE Max(a % 2, b % 2) + 2 * BitOr(a \div 2, b \div 2)

\* u & v and u | v on words, stored back into a Uint32Array.
And32(u, v) == [k \in 1..4 |-> BitAnd(u[k], v[k])]
Or32(u, v) == [k \in 1..4 |-> BitOr(u[k], v[k])]

\* u >> 3: the operand is taken as a signed 32 bit integer, so the sign bit
\* (bit 7 of byte3) fills the three vacated bits.
ShiftRight3(u) ==
    << (u[1] \div 8) + 32 * (u[2] % 8),
       (u[2] \div 8) + 32 * (u[3] % 8),
       (u[3] \div 8) + 32 * (u[4] % 8),
       (u[4] \div 8) + (IF u[4] >= 128 THEN 224 ELSE 0) >>

\* 0xffffffff
WHITE_ABGR == <<255, 255, 255, 255>>
\* 0x001f1f1f
MASK_BGR_SHIFTED == <<31, 31, 31, 0>>
\* 0xffe0e0e0
WASHED_OUT_ABGR == <<224, 224, 224, 255>>
\* 0xff6060e0
RED_FILTER_ABGR == <<224, 96, 96, 255>>
\* 0xff60e060
GREEN_FILTER_ABGR == <<96, 224, 96, 255>>
\* 0xff1f1f1f
MASK_LOW_RES == <<31, 31, 31, 255>>
\* 0x60c0e0
LOW_RES_ABGR == <<224, 192, 96, 0>>
\* A fresh PNG's data: Buffer.alloc zero-fills.
BLANK == <<0, 0, 0, 0>>

(***************************************************************************)
(* Files and the loader.                                                   *)
(***************************************************************************)
NoViewport == [x |-> 0, y |-> 0, width |-> 0, height |-> 0]
NoData == [i \in {} |-> BLANK]

\* A path with no file behind it.
NoFile ==
    [exists |-> FALSE, isPNG |-> FALSE, decodable |-> FALSE, sidecar |-> "none",
     viewport |-> NoViewport, width |-> 0, height |-> 0, data |-> NoData]

\* A decodable image file; sidecar is "none", "ok" (viewport is its
\* viewport), "malformed" (not JSON) or "noViewport" (JSON without one).
ImageFile(isPNG, w, h, data, sidecar, viewport) ==
    [exists |-> TRUE, isPNG |-> isPNG, decodable |-> TRUE, sidecar |-> sidecar,
     viewport |-> viewport, width |-> w, height |-> h, data |-> data]

Undefined == [defined |-> FALSE]

\* What the promise returned by getImageAndTestInformation does:
\* "resolved" with a value, or "pending" for ever.  JSON.parse and decode throw
\* inside the async executor of `new Promise`, so the throw rejects the
\* executor's own (discarded) promise and resolve is never called; a PNG
\* stream that fails emits "error", not "parsed".
LoadOutcome(file) ==
    IF ~file.exists THEN "resolved"
    ELSE IF file.sidecar = "malformed" THEN "pending"
    ELSE IF ~file.decodable THEN "pending"
    ELSE "resolved"

\* The value the loader resolves with (LoadOutcome(file) = "resolved").
getImageAndTestInformation(file) ==
    IF ~file.exists
    THEN [image |-> Undefined, info |-> Undefined]
    ELSE [image |-> [defined |-> TRUE, width |-> file.width,
                     height |-> file.height, data |-> file.data],
          info |-> IF file.sidecar = "ok"
                   THEN [defined |-> TRUE, hasViewport |-> TRUE,
                         viewport |-> file.viewport]
                   ELSE IF file.sidecar = "noViewport"
                   THEN [defined |-> TRUE, hasViewport |-> FALSE,
                         viewport |-> NoViewport]
                   ELSE [defined |-> TRUE, hasViewport |-> TRUE,
                         viewport |-> [x |-> 0, y |-> 0, width |-> file.width,
                                       height |-> file.height]]]

(***************************************************************************)
(* The diff engine: diffImagesAsync once both loads have resolved.         *)
(***************************************************************************)
\* 255 * Math.min(1, Math.max(0, threshold || DEFAULT_THRESHOLD)), in
\* thousandths; `||` takes the default when threshold is 0.
BrightnessDifferenceThreshold(threshold) ==
    255 * Min(1000, Max(0, IF threshold = 0 THEN DEFAULT_THRESHOLD ELSE threshold))

\* Math.abs(b - c)
ChannelDifferenceSigned(b, c) == b - c
ChannelDifference(b, c) == IF b >= c THEN b - c ELSE c - b

\* diffData[index8]: the byte view of the canvas.
DiffByte(diff, index8) ==
    diff[index8 \div COLOR_COMPONENTS][(index8 % COLOR_COMPONENTS) + 1]

\* differenceBrightness, in thousandths.
DifferenceBrightness(diff, bIndex8, cIndex8, bABGR, cABGR) ==
    IF bABGR = cABGR THEN 0
    ELSE 299 * ChannelDifference(DiffByte(diff, bIndex8 + 1), DiffByte(diff, cIndex8 + 1))
       + 587 * ChannelDifference(DiffByte(diff, bIndex8 + 2), DiffByte(diff, cIndex8 + 2))
       + 114 * ChannelDifference(DiffByte(diff, bIndex8 + 3), DiffByte(diff, cIndex8 + 3))

\* The initial value of mismatchedPixels.
InitialMismatchedPixelsSwapped(missingOneImage, baselineIsNull) ==
    IF missingOneImage
    THEN (IF baselineIsNull THEN MISSING_CANDIDATE ELSE MISSING_BASELINE)
    ELSE 0
InitialMismatchedPixels(missingOneImage, baselineIsNull) ==
    IF missingOneImage
    THEN (IF baselineIsNull THEN MISSING_BASELINE ELSE MISSING_CANDIDATE)
    ELSE 0

\* diffHashIndex when pixel (x, y) is classified: it is set at the start of the
\* line and nothing in the pixel loop advances it.
DiffHashIndex(x, y) == y * DIFF_HASH_SPREAD

\* diffData32.set(new Uint32Array(data32.buffer, offset32 * 4, width), at)
CopyLine(diff, data32, offset32, width, at) ==
    [i \in DOMAIN diff |->
        IF at <= i /\ i < at + width THEN data32[offset32 + (i - at)] ELSE diff[i]]

\* diffData32.fill(value, from, to)
Fill(diff, value, from, to) ==
    [i \in DOMAIN diff |-> IF from <= i /\ i < to THEN value ELSE diff[i]]

\* The body of the pixel loop for column x of line y.
DiffPixel(ctx, x, y, s) ==
    LET indexDiff32 == y * ctx.width * 3 + ctx.width + x
        bIndex8 == (indexDiff32 - ctx.width) * COLOR_COMPONENTS
        cIndex8 == (indexDiff32 + ctx.width) * COLOR_COMPONENTS
        indexLowRes == (y \div ctx.lowResScale) * ctx.lowResWidth + (x \div ctx.lowResScale)
        diffHashIndex == DiffHashIndex(x, y)
        bABGR == s.diff[indexDiff32 - ctx.width]
        cABGR == s.diff[indexDiff32 + ctx.width]
        bBGRShifted == And32(ShiftRight3(bABGR), MASK_BGR_SHIFTED)
        differenceBrightness == DifferenceBrightness(s.diff, bIndex8, cIndex8, bABGR, cABGR)
    IN  IF differenceBrightness < ctx.BRIGHTNESS_DIFFERENCE_THRESHOLD
        THEN [s EXCEPT !.diff[indexDiff32] = Or32(bBGRShifted, WASHED_OUT_ABGR)]
        ELSE
          LET seed == s.diffHash = 0
              diffHash1 == IF seed THEN s.diffHash + DIFF_HASH_SPREAD ELSE s.diffHash
              start1 == IF seed THEN diffHashIndex ELSE s.diffHashStartIndex
              odd == (x + y) % 2 = 1
              diff1 == [s.diff EXCEPT ![indexDiff32] = COLOR_HIGHLIGHT_ABGR]
              diff2 == IF odd /\ cABGR # WHITE_ABGR
                       THEN [diff1 EXCEPT ![indexDiff32 - ctx.width] =
                                Or32(bBGRShifted, RED_FILTER_ABGR)]
                       ELSE diff1
              diff3 == IF odd /\ bABGR # WHITE_ABGR
                       THEN [diff2 EXCEPT ![indexDiff32 + ctx.width] =
                                Or32(And32(ShiftRight3(cABGR), MASK_BGR_SHIFTED),
                                     GREEN_FILTER_ABGR)]
                       ELSE diff2
          IN  [s EXCEPT !.mismatchedPixels = @ + 1,
                        !.diff = diff3,
                        !.lowResHighlightData[indexLowRes] = Min(255, @ + 1),
                        !.diffHash = diffHash1 + diffHashIndex - start1,
                        !.diffHashStartIndex = start1]

RECURSIVE DiffPixels(_, _, _, _)
DiffPixels(ctx, x, y, s) ==
    IF x >= ctx.width THEN s ELSE DiffPixels(ctx, x + 1, y, DiffPixel(ctx, x, y, s))

\* Copy the baseline line on the left if available.
CopyBaselineLine(ctx, y, s) ==
    LET indexDiff32 == y * ctx.width * 3 + ctx.width
    IN  IF ctx.baselineData32.defined
           /\ s.baselineOffset32 <= ctx.baselineData32.length - ctx.width
        THEN [s EXCEPT !.diff = CopyLine(@, ctx.baselineData32.data, s.baselineOffset32,
                                         ctx.width, indexDiff32 - ctx.width),
                       !.baselineOffset32 = @ + ctx.baselineOffsetIncrement32]
        ELSE s

\* Copy the candidate line on the right if available.
CopyCandidateLine(ctx, y, s) ==
    LET indexDiff32 == y * ctx.width * 3 + ctx.width
    IN  IF ctx.candidateData32.defined
           /\ s.candidateOffset32 <= ctx.candidateData32.length - ctx.width
        THEN [s EXCEPT !.diff = CopyLine(@, ctx.candidateData32.data, s.candidateOffset32,
                                         ctx.width, indexDiff32 + ctx.width),
                       !.candidateOffset32 = @ + ctx.candidateOffsetIncrement32]
        ELSE s

\* The body of the line loop for line y.
DiffLine(ctx, y, s) ==
    LET indexDiff32 == y * ctx.width * 3 + ctx.width
        s1 == IF ctx.missingOneImage
              THEN [s EXCEPT !.diff = Fill(@, COLOR_HIGHLIGHT_ABGR, indexDiff32,
                                           indexDiff32 + ctx.width)]
              ELSE s
        s2 == CopyBaselineLine(ctx, y, s1)
        s3 == CopyCandidateLine(ctx, y, s2)
    IN  IF ctx.baselineData32.defined /\ ctx.candidateData32.defined
        THEN DiffPixels(ctx, 0, y, s3)
        ELSE s3

RECURSIVE DiffLines(_, _, _)
DiffLines(ctx, y, s) ==
    IF y >= ctx.height THEN s ELSE DiffLines(ctx, y + 1, DiffLine(ctx, y, s))

\* The low resolution highlight.  Every centre pixel lies in exactly one cell,
\* so the four nested loops rewrite each centre pixel at most once.
LowResHighlight(ctx, s) ==
    IF s.mismatchedPixels > 0 /\ ctx.baselineData32.defined /\ ctx.candidateData32.defined
    THEN [i \in DOMAIN s.diff |->
            LET y == i \div (ctx.width * 3)
                column == i % (ctx.width * 3)
                x == column - ctx.width
                cell == (x \div ctx.lowResScale)
                        + (y \div ctx.lowResScale) * ctx.lowResWidth
            IN  IF ctx.width <= column /\ column < 2 * ctx.width
                   /\ s.lowResHighlightData[cell] > 0
                   /\ s.diff[i] # COLOR_HIGHLIGHT_ABGR
                THEN Or32(And32(s.diff[i], MASK_LOW_RES), LOW_RES_ABGR)
                ELSE s.diff[i]]
    ELSE s.diff

\* The widths, buffers and offsets prepared before the loops.
Prepare(baseline, candidate, threshold) ==
    LET hasB == baseline.image.defined /\ baseline.info.defined
        hasC == candidate.image.defined /\ candidate.info.defined
        widthB == IF hasB THEN baseline.info.viewport.width ELSE 0
        heightB == IF hasB THEN baseline.info.viewport.height ELSE 0
        width == IF hasC THEN Max(widthB, candidate.info.viewport.width) ELSE widthB
        height == IF hasC THEN Max(heightB, candidate.info.viewport.height) ELSE heightB
        imagesCount == (IF hasB THEN 1 ELSE 0) + (IF hasC THEN 1 ELSE 0)
        lowResScale == Ceil(Min(width, height), 8)
    IN  [width |-> width,
         height |-> height,
         imagesCount |-> imagesCount,
         missingOneImage |-> imagesCount = 1,
         baselineData32 |->
            IF hasB
            THEN [defined |-> TRUE, data |-> baseline.image.data,
                  length |-> baseline.image.width * baseline.image.height]
            ELSE [defined |-> FALSE, data |-> NoData, length |-> 0],
         candidateData32 |->
            IF hasC
            THEN [defined |-> TRUE, data |-> candidate.image.data,
                  length |-> candidate.image.width * candidate.image.height]
            ELSE [defined |-> FALSE, data |-> NoData, length |-> 0],
         baselineOffset32 |->
            IF hasB THEN baseline.info.viewport.x
                         + baseline.info.viewport.y * baseline.image.width
            ELSE 0,
         candidateOffset32 |->
            IF hasC THEN candidate.info.viewport.x
                         + candidate.info.viewport.y * candidate.image.width
            ELSE 0,
         baselineOffsetIncrement32 |-> IF hasB THEN baseline.image.width ELSE 0,
         candidateOffsetIncrement32 |-> IF hasC THEN candidate.image.width ELSE 0,
         BRIGHTNESS_DIFFERENCE_THRESHOLD |-> BrightnessDifferenceThreshold(threshold),
         lowResScale |-> lowResScale,
         lowResWidth |-> Ceil(width, lowResScale),
         lowResHeight |-> Ceil(height, lowResScale)]

NoResult(returns) ==
    [returns |-> returns, mismatchedPixels |-> 0, diffHash |-> 0, written |-> FALSE,
     width |-> 0, height |-> 0, diff |-> NoData]

\* The canvas, counters and offsets as the line loop is entered.
BeforeLines(ctx) ==
    [diff |-> [i \in 0..(ctx.width * 3 * ctx.height - 1) |-> BLANK],
     mismatchedPixels |->
         InitialMismatchedPixels(ctx.missingOneImage, ~ctx.baselineData32.defined),
     diffHash |-> 0,
     diffHashStartIndex |-> 0,
     lowResHighlightData |-> [i \in 0..(ctx.lowResWidth * ctx.lowResHeight - 1) |-> 0],
     baselineOffset32 |-> ctx.baselineOffset32,
     candidateOffset32 |-> ctx.candidateOffset32]

\* After the line loop: the low resolution highlight, the write of the diff
\* image (written: diff.pack() is piped into diffImagePath) and the result.
AfterLines(ctx, s) ==
    [returns |-> "DiffResult",
     mismatchedPixels |-> s.mismatchedPixels,
     diffHash |-> s.diffHash,
     written |-> s.mismatchedPixels # 0,
     width |-> ctx.width,
     height |-> ctx.height,
     diff |-> LowResHighlight(ctx, s)]

DiffPrepared(ctx) == AfterLines(ctx, DiffLines(ctx, 0, BeforeLines(ctx)))

\* diffImagesAsync from the first statement after the loads: returns
\* "undefined", a "DiffResult", or "throws" (reading .width of a viewport the
\* sidecar does not have).
DiffEngine(baseline, candidate, threshold) ==
    IF ~baseline.image.defined /\ ~candidate.image.defined
    THEN NoResult("undefined")
    ELSE IF (baseline.image.defined /\ ~baseline.info.hasViewport)
            \/ (candidate.image.defined /\ ~candidate.info.hasViewport)
    THEN NoResult("throws")
    ELSE DiffPrepared(Prepare(baseline, candidate, threshold))

\* The promise of diffImagesAsync for two files: "pending" for ever when a
\* load never settles, else what the engine does.
diffImagesAsync(bFile, cFile, threshold) ==
    IF LoadOutcome(bFile) = "pending" \/ LoadOutcome(cFile) = "pending"
    THEN NoResult("pending")
    ELSE DiffEngine(getImageAndTestInformation(bFile),
                    getImageAndTestInformation(cFile), threshold)

(***************************************************************************)
(* The inputs of the diff engine's specification.                          *)
(***************************************************************************)
\* Opaque white, opaque black, opaque red (black but for byte0) and a black
\* that differs from opaque black in byte3 (alpha) alone, by 31.
Palette == { <<255, 255, 255, 255>>, <<0, 0, 0, 255>>, <<255, 0, 0, 255>>, <<0, 0, 0, 224>> }

\* The colour of a page.
Backgrounds == { <<255, 255, 255, 255>>, <<0, 0, 0, 255>> }

\* threshold values of a request, in thousandths: below the range, 0 and
\* inside the range.
Thresholds == { -500, 0, 10 }

Dims == { d \in (1..MaxPixels) \X (1..MaxPixels) : d[1] * d[2] <= MaxPixels }

\* Pixel data: a page with at most one pixel of another colour.
Contents(n) ==
    { [i \in 0..(n - 1) |-> IF i = p THEN fg ELSE bg] :
        bg \in Backgrounds, fg \in Palette, p \in 0..(n - 1) }

\* Sidecar viewports of a w x h image: the image without its first or its last
\* column or row.
SidecarViewports(w, h) ==
    { v \in [x : 0..1, y : 0..1, width : 1..w, height : 1..h] :
        /\ v.x + v.y <= 1
        /\ v.x + v.width <= w /\ v.y + v.height <= h
        /\ (w - v.width) + (h - v.height) = 1 }

ImageFilesOf(w, h) ==
    { ImageFile(TRUE, w, h, data, "none", NoViewport) : data \in Contents(w * h) }
    \cup { ImageFile(TRUE, w, h, data, "ok", v) :
             data \in Contents(w * h), v \in SidecarViewports(w, h) }

ImageFiles == UNION { ImageFilesOf(d[1], d[2]) : d \in Dims }

NotCalled == [done |-> FALSE, threshold |-> 0, result |-> NoResult("none")]
NoSecond == [kind |-> "none", threshold |-> 0, result |-> NoResult("none")]

WorkerIdle ==
    /\ inbox = << >>
    /\ jobs = << >>
    /\ outbox = << >>
    /\ crashed = FALSE

Init ==
    /\ baselineFile \in ImageFiles \cup {NoFile}
    /\ candidateFile \in ImageFiles \cup {NoFile}
    /\ first = NotCalled
    /\ second = NoSecond
    /\ WorkerIdle

\* diffImagesAsync({baselineImagePath, candidateImagePath, diffImagePath, threshold})
Diff(threshold) ==
    /\ ~first.done
    /\ first' = [done |-> TRUE, threshold |-> threshold,
                 result |-> diffImagesAsync(baselineFile, candidateFile, threshold)]
    /\ UNCHANGED <<baselineFile, candidateFile, second, workerVars>>

\* The same call with the two image paths exchanged.
DiffSwapped ==
    /\ first.done
    /\ second.kind = "none"
    /\ second' = [kind |-> "swapped", threshold |-> first.threshold,
                  result |-> diffImagesAsync(candidateFile, baselineFile,
                                             first.threshold)]
    /\ UNCHANGED <<baselineFile, candidateFile, first, workerVars>>

\* The same call with a greater threshold.
DiffAgain(threshold) ==
    /\ first.done
    /\ second.kind = "none"
    /\ threshold > first.threshold
    /\ second' = [kind |-> "threshold", threshold |-> threshold,
                  result |-> diffImagesAsync(baselineFile, candidateFile, threshold)]
    /\ UNCHANGED <<baselineFile, candidateFile, first, workerVars>>

Next ==
    \/ \E threshold \in Thresholds : Diff(threshold)
    \/ DiffSwapped
    \/ \E threshold \in Thresholds : DiffAgain(threshold)

Spec == Init /\ [][Next]_vars

(***************************************************************************)
(* What the claims read off a call.                                        *)
(***************************************************************************)
FirstCall ==
    [baseline |-> baselineFile, candidate |-> candidateFile,
     threshold |-> first.threshold, result |-> first.result]

SecondCall ==
    IF second.kind = "swapped"
    THEN [baseline |-> candidateFile, candidate |-> baselineFile,
          threshold |-> second.threshold, result |-> second.result]
    ELSE [baseline |-> baselineFile, candidate |-> candidateFile,
          threshold |-> second.threshold, result |-> second.result]

\* The calls of diffImagesAsync made so far.
Calls ==
    (IF first.done THEN {FirstCall} ELSE {})
    \cup (IF second.kind # "none" THEN {SecondCall} ELSE {})

BothPresent(call) == call.baseline.exists /\ call.candidate.exists

Cells(result) == (0..(result.width - 1)) \X (0..(result.height - 1))

\* The three panels of a canvas of the given comparison width.
LeftPanel(diff, width, x, y) == diff[y * width * 3 + x]
CentrePanel(diff, width, x, y) == diff[y * width * 3 + width + x]
RightPanel(diff, width, x, y) == diff[y * width * 3 + 2 * width + x]

\* With both images present the centre panel holds the highlight colour exactly
\* where the pixel was counted as mismatched: a matched pixel's byte1 is at
\* least 0xc0 after the washed-out and low resolution writes.
MismatchedAt(result, x, y) ==
    CentrePanel(result.diff, result.width, x, y) = COLOR_HIGHLIGHT_ABGR

ViewportOf(file) == getImageAndTestInformation(file).info.viewport

RECURSIVE CopyLines(_, _, _)
CopyLines(ctx, y, s) ==
    IF y >= ctx.height THEN s
    ELSE CopyLines(ctx, y + 1, CopyCandidateLine(ctx, y, CopyBaselineLine(ctx, y, s)))

CopiedWith(ctx) == CopyLines(ctx, 0, BeforeLines(ctx)).diff

\* The canvas with the two side panels as the line copies leave them, before
\* any pixel is classified: the values bABGR and cABGR are read from.
PanelsAsCopied(call) ==
    CopiedWith(Prepare(getImageAndTestInformation(call.baseline),
                       getImageAndTestInformation(call.candidate), call.threshold))

(***************************************************************************)
(* C1, Identity: a call with the same image as baseline and candidate      *)
(* returns mismatchedPixels = 0 and diffHash = 0 and writes no diff image, *)
(* whatever the threshold.                                                 *)
(***************************************************************************)
C1_Identity ==
    \A call \in Calls :
        (call.baseline.exists /\ call.candidate = call.baseline)
        => /\ call.result.returns = "DiffResult"
           /\ call.result.mismatchedPixels = 0
           /\ call.result.diffHash = 0
           /\ ~call.result.written

(***************************************************************************)
(* C2 as stated: with only the baseline image present the result is        *)
(* MISSING_BASELINE, with only the candidate present MISSING_CANDIDATE,    *)
(* with neither present undefined is returned.                             *)
(***************************************************************************)
C2_SentinelAsStated ==
    \A call \in Calls :
        /\ (call.baseline.exists /\ ~call.candidate.exists)
           => (call.result.returns = "DiffResult"
               /\ call.result.mismatchedPixels = MISSING_BASELINE)
        /\ (~call.baseline.exists /\ call.candidate.exists)
           => (call.result.returns = "DiffResult"
               /\ call.result.mismatchedPixels = MISSING_CANDIDATE)
        /\ (~call.baseline.exists /\ ~call.candidate.exists)
           => call.result.returns = "undefined"

(***************************************************************************)
(* C2 amended: the sentinel names the image that is absent.  With only the *)
(* baseline present the result is MISSING_CANDIDATE, with only the         *)
(* candidate present MISSING_BASELINE, with neither present undefined is   *)
(* returned.                                                               *)
(***************************************************************************)
C2_Sentinel ==
    \A call \in Calls :
        /\ (call.baseline.exists /\ ~call.candidate.exists)
           => (call.result.returns = "DiffResult"
               /\ call.result.mismatchedPixels = MISSING_CANDIDATE)
        /\ (~call.baseline.exists /\ call.candidate.exists)
           => (call.result.returns = "DiffResult"
               /\ call.result.mismatchedPixels = MISSING_BASELINE)
        /\ (~call.baseline.exists /\ ~call.candidate.exists)
           => call.result.returns = "undefined"

\* Both one-image cases in one state: a call with only the baseline present
\* and the swapped call, with only the candidate present.
C2_Witness ==
    /\ first.done /\ second.kind = "swapped"
    /\ baselineFile.exists /\ ~candidateFile.exists
    /\ first.result.mismatchedPixels = MISSING_CANDIDATE
    /\ second.result.mismatchedPixels = MISSING_BASELINE

(***************************************************************************)
(* C3, Monotonic threshold: for one pair of present images and thresholds  *)
(* t1 < t2, mismatchedPixels at t1 is at least mismatchedPixels at t2.     *)
(***************************************************************************)
C3_MonotonicThreshold ==
    (second.kind = "threshold" /\ BothPresent(FirstCall)
     /\ first.threshold < second.threshold)
    => first.result.mismatchedPixels >= second.result.mismatchedPixels

(***************************************************************************)
(* C6, Symmetry: for a pair of present images and a threshold, the call    *)
(* and the call with baseline and candidate exchanged return the same      *)
(* mismatchedPixels and the same diffHash.                                 *)
(***************************************************************************)
C6_Symmetry ==
    (second.kind = "swapped" /\ BothPresent(FirstCall))
    => /\ first.result.returns = "DiffResult"
       /\ second.result.returns = "DiffResult"
       /\ first.result.mismatchedPixels = second.result.mismatchedPixels
       /\ first.result.diffHash = second.result.diffHash

\* Two images of different sizes, one with a sidecar viewport, some pixels
\* matched and some mismatched, compared in both orders.
C6_Witness ==
    /\ second.kind = "swapped" /\ BothPresent(FirstCall)
    /\ baselineFile.width # candidateFile.width
    /\ baselineFile.sidecar = "ok"
    /\ first.result.mismatchedPixels > 0
    /\ first.result.mismatchedPixels < first.result.width * first.result.height
    /\ first.result.diff # second.result.diff

(***************************************************************************)
(* C7, White-background exclusion: at a mismatched pixel (x, y) with x + y *)
(* odd, the candidate-side (right) panel pixel is tinted toward red unless *)
(* the candidate pixel is pure white, and then it keeps the copied         *)
(* candidate value; the baseline-side (left) panel pixel is tinted toward  *)
(* green unless the baseline pixel is pure white, and then it keeps the    *)
(* copied baseline value; the centre panel pixel is the highlight colour.  *)
(***************************************************************************)
\* A word carrying the red filter 0xff6060e0, or the green filter 0xff60e060,
\* over five low bits per colour byte.
IsRedTint(word) ==
    word[1] \in 224..255 /\ word[2] \in 96..127 /\ word[3] \in 96..127 /\ word[4] = 255
IsGreenTint(word) ==
    word[1] \in 96..127 /\ word[2] \in 224..255 /\ word[3] \in 96..127 /\ word[4] = 255

C7_WhiteBackgroundExclusion ==
    \A call \in Calls :
        (BothPresent(call) /\ call.result.returns = "DiffResult"
         /\ call.threshold \in 1..1000)
        => \A cell \in Cells(call.result) :
             LET x == cell[1]
                 y == cell[2]
                 width == call.result.width
                 bABGR == LeftPanel(PanelsAsCopied(call), width, x, y)
                 cABGR == RightPanel(PanelsAsCopied(call), width, x, y)
             IN  (MismatchedAt(call.result, x, y) /\ (x + y) % 2 = 1)
                 => /\ CentrePanel(call.result.diff, width, x, y) = COLOR_HIGHLIGHT_ABGR
                    /\ IF cABGR = WHITE_ABGR
                       THEN RightPanel(call.result.diff, width, x, y) = cABGR
                       ELSE IsRedTint(RightPanel(call.result.diff, width, x, y))
                    /\ IF bABGR = WHITE_ABGR
                       THEN LeftPanel(call.result.diff, width, x, y) = bABGR
                       ELSE IsGreenTint(LeftPanel(call.result.diff, width, x, y))

(***************************************************************************)
(* C8, Brightness difference channels: for unequal baseline and candidate  *)
(* pixels the value compared against the threshold is                      *)
(* 0.299*|dR| + 0.587*|dG| + 0.114*|dB| with R, G, B the bytes 0, 1, 2 of  *)
(* the RGBA pixel and alpha (byte 3) contributing nothing: the pixel is a  *)
(* mismatch exactly when that value reaches the threshold.                 *)
(***************************************************************************)
\* C7 to C10 are stated for calls whose threshold lies inside the range, where
\* 255 * threshold is what the pixel loop compares against.
C8_BrightnessChannels ==
    \A call \in Calls :
        (BothPresent(call) /\ call.result.returns = "DiffResult"
         /\ call.threshold \in 1..1000)
        => \A cell \in Cells(call.result) :
             LET x == cell[1]
                 y == cell[2]
                 width == call.result.width
                 bABGR == LeftPanel(PanelsAsCopied(call), width, x, y)
                 cABGR == RightPanel(PanelsAsCopied(call), width, x, y)
                 luma == 299 * ChannelDifference(bABGR[1], cABGR[1])
                         + 587 * ChannelDifference(bABGR[2], cABGR[2])
                         + 114 * ChannelDifference(bABGR[3], cABGR[3])
             IN  bABGR # cABGR
                 => (MismatchedAt(call.result, x, y)
                     <=> luma >= BrightnessDifferenceThreshold(call.threshold))

(***************************************************************************)
(* C9, Positional hash value: with both images present diffHash is 0 when  *)
(* no pixel mismatches, and otherwise SPREAD plus the sum over the         *)
(* mismatched pixels of (key - start), where key = y * SPREAD + x and      *)
(* start is the key of the first mismatched pixel in row-major order.      *)
(***************************************************************************)
HashKey(cell) == cell[2] * DIFF_HASH_SPREAD + cell[1]

RECURSIVE SumOfKeys(_, _)
SumOfKeys(cells, start) ==
    IF cells = {} THEN 0
    ELSE LET cell == CHOOSE c \in cells : TRUE
         IN  (HashKey(cell) - start) + SumOfKeys(cells \ {cell}, start)

C9_PositionalHash ==
    \A call \in Calls :
        (BothPresent(call) /\ call.result.returns = "DiffResult"
         /\ call.threshold \in 1..1000)
        => LET mismatched == { cell \in Cells(call.result) :
                                 MismatchedAt(call.result, cell[1], cell[2]) }
               start == CHOOSE k \in { HashKey(c) : c \in mismatched } :
                            \A c \in mismatched : k <= HashKey(c)
           IN  call.result.diffHash =
                   IF mismatched = {} THEN 0
                   ELSE DIFF_HASH_SPREAD + SumOfKeys(mismatched, start)

(***************************************************************************)
(* C10, Union bounds with absent data: with both images present the        *)
(* comparison region is the component-wise maximum of the two viewport     *)
(* sizes, and a cell of it outside an image's own viewport gets no pixel   *)
(* of that image copied into that image's side panel: the cell is left     *)
(* blank by the copies.                                                    *)
(***************************************************************************)
C10_UnionBounds ==
    \A call \in Calls :
        (BothPresent(call) /\ call.result.returns = "DiffResult"
         /\ call.threshold \in 1..1000)
        => LET b == ViewportOf(call.baseline)
               c == ViewportOf(call.candidate)
               width == call.result.width
           IN  /\ width = Max(b.width, c.width)
               /\ call.result.height = Max(b.height, c.height)
               /\ \A cell \in Cells(call.result) :
                    /\ (cell[1] >= b.width \/ cell[2] >= b.height)
                       => LeftPanel(PanelsAsCopied(call), width, cell[1], cell[2]) = BLANK
                    /\ (cell[1] >= c.width \/ cell[2] >= c.height)
                       => RightPanel(PanelsAsCopied(call), width, cell[1], cell[2]) = BLANK

(***************************************************************************)
(* The worker: process.on("message") of a forked child.                    *)
(*                                                                         *)
(* One action is one task of the event loop together with the microtasks   *)
(* it queues: the delivery of a message runs the handler up to its await,  *)
(* and, when neither load needs the event loop (an absent file resolves at *)
(* once, a JPEG is decoded synchronously), on through the diff to          *)
(* process.send.  A PNG is read through a stream, whose "parsed" event is  *)
(* a later task.                                                           *)
(***************************************************************************)
PagePixels(left, right) == [i \in 0..1 |-> IF i = 0 THEN left ELSE right]

\* The files of the worker's disk.
Disk ==
    [path \in {"base.png", "cand.png", "photo.jpg", "meta.png", "shape.png",
               "broken.png", "broken.jpg", "none.png"} |->
        CASE path = "base.png" ->
               ImageFile(TRUE, 2, 1, PagePixels(WHITE_ABGR, <<0, 0, 0, 255>>),
                         "none", NoViewport)
          [] path = "cand.png" ->
               ImageFile(TRUE, 2, 1, PagePixels(WHITE_ABGR, WHITE_ABGR),
                         "none", NoViewport)
          [] path = "photo.jpg" ->
               ImageFile(FALSE, 2, 1, PagePixels(<<0, 0, 0, 255>>, <<0, 0, 0, 255>>),
                         "none", NoViewport)
          [] path = "meta.png" ->
               ImageFile(TRUE, 2, 1, PagePixels(WHITE_ABGR, WHITE_ABGR),
                         "malformed", NoViewport)
          [] path = "shape.png" ->
               ImageFile(TRUE, 2, 1, PagePixels(WHITE_ABGR, WHITE_ABGR),
                         "noViewport", NoViewport)
          [] path = "broken.png" ->
               [ImageFile(TRUE, 0, 0, NoData, "none", NoViewport)
                   EXCEPT !.decodable = FALSE]
          [] path = "broken.jpg" ->
               [ImageFile(FALSE, 0, 0, NoData, "none", NoViewport)
                   EXCEPT !.decodable = FALSE]
          [] OTHER -> NoFile]

Paths == DOMAIN Disk

\* The job requests the parent may send.
Requests ==
    [baselineImagePath : Paths, candidateImagePath : Paths,
     threshold : {DEFAULT_THRESHOLD}]

\* The load of one image as the handler reaches its await: "resolved",
\* "reading" (a PNG stream is open) or "never" (JSON.parse or decode threw in
\* the executor, so the promise stays pending for ever).
StartLoad(file) ==
    IF ~file.exists THEN "resolved"
    ELSE IF file.sidecar = "malformed" THEN "never"
    ELSE IF file.isPNG THEN "reading"
    ELSE IF file.decodable THEN "resolved"
    ELSE "never"

\* The job once both loads have resolved: the rest of diffImagesAsync and
\* of the handler.  process.send(undefined) throws (the message argument is
\* missing), so a request with neither image gets no response.
Continue(job) ==
    LET result == DiffEngine(getImageAndTestInformation(Disk[job.msg.baselineImagePath]),
                             getImageAndTestInformation(Disk[job.msg.candidateImagePath]),
                             job.msg.threshold)
    IN  [job EXCEPT
            !.promise = IF result.returns = "throws" THEN "rejected" ELSE "fulfilled",
            !.handler = IF result.returns = "DiffResult" THEN "responded" ELSE "failed",
            !.result = [mismatchedPixels |-> result.mismatchedPixels,
                        diffHash |-> result.diffHash]]

\* Promise.all over the two loads, and what follows it in the same task.
Settle(job) ==
    IF job.loads.baseline = "resolved" /\ job.loads.candidate = "resolved"
    THEN Continue(job)
    ELSE job

Responses(id, job) ==
    IF job.handler = "responded"
    THEN << [job |-> id, mismatchedPixels |-> job.result.mismatchedPixels,
             diffHash |-> job.result.diffHash] >>
    ELSE << >>

\* A rejection nobody handles: the executor's throw, or the handler's own
\* promise.  The runtime then either only warns or ends the process.
Unhandled(before, after) ==
    \/ after.handler = "failed" /\ before.handler # "failed"
    \/ \E side \in {"baseline", "candidate"} :
          after.loads[side] = "never" /\ before.loads[side] # "never"

NotStarted ==
    [msg |-> [baselineImagePath |-> "none.png", candidateImagePath |-> "none.png",
              threshold |-> 0],
     loads |-> [baseline |-> "none", candidate |-> "none"],
     promise |-> "none", handler |-> "none",
     result |-> [mismatchedPixels |-> 0, diffHash |-> 0]]

DiffIdle ==
    /\ baselineFile = NoFile
    /\ candidateFile = NoFile
    /\ first = NotCalled
    /\ second = NoSecond

WorkerInit == DiffIdle /\ WorkerIdle

\* The parent sends a job request down the channel.
Send(msg) ==
    /\ ~crashed
    /\ Len(inbox) + Len(jobs) < MaxJobs
    /\ inbox' = Append(inbox, msg)
    /\ UNCHANGED <<jobs, outbox, crashed, diffVars>>

\* The "message" event: the handler runs for the oldest undelivered request.
Receive ==
    /\ ~crashed
    /\ inbox # << >>
    /\ LET msg == Head(inbox)
           started == [NotStarted EXCEPT
                          !.msg = msg,
                          !.loads = [baseline |-> StartLoad(Disk[msg.baselineImagePath]),
                                     candidate |-> StartLoad(Disk[msg.candidateImagePath])],
                          !.promise = "pending",
                          !.handler = "awaiting"]
           job == Settle(started)
       IN  /\ inbox' = Tail(inbox)
           /\ jobs' = Append(jobs, job)
           /\ outbox' = outbox \o Responses(Len(jobs) + 1, job)
           /\ IF Unhandled(NotStarted, job)
              THEN crashed' \in BOOLEAN
              ELSE crashed' = crashed
    /\ UNCHANGED diffVars

\* The "parsed" event of a PNG stream.
Parsed(id, side) ==
    /\ ~crashed
    /\ id \in DOMAIN jobs
    /\ jobs[id].loads[side] = "reading"
    /\ LET path == IF side = "baseline" THEN jobs[id].msg.baselineImagePath
                   ELSE jobs[id].msg.candidateImagePath
           job == Settle([jobs[id] EXCEPT !.loads[side] = "resolved"])
       IN  /\ Disk[path].decodable
           /\ jobs' = [jobs EXCEPT ![id] = job]
           /\ outbox' = outbox \o Responses(id, job)
           /\ IF Unhandled(jobs[id], job)
              THEN crashed' \in BOOLEAN
              ELSE crashed' = crashed
    /\ UNCHANGED <<inbox, diffVars>>

\* A PNG stream that cannot be parsed: "parsed" never comes.  The stream's
\* "error" event has no listener, which ends the process unless the embedding
\* catches it.
ParseError(id, side) ==
    /\ ~crashed
    /\ id \in DOMAIN jobs
    /\ jobs[id].loads[side] = "reading"
    /\ LET path == IF side = "baseline" THEN jobs[id].msg.baselineImagePath
                   ELSE jobs[id].msg.candidateImagePath
       IN  /\ ~Disk[path].decodable
           /\ jobs' = [jobs EXCEPT ![id].loads[side] = "never"]
    /\ crashed' \in BOOLEAN
    /\ UNCHANGED <<inbox, outbox, diffVars>>

WorkerNext ==
    \/ \E msg \in Requests : Send(msg)
    \/ Receive
    \/ \E id \in 1..MaxJobs, side \in {"baseline", "candidate"} : Parsed(id, side)
    \/ \E id \in 1..MaxJobs, side \in {"baseline", "candidate"} : ParseError(id, side)

WorkerSpec == WorkerInit /\ [][WorkerNext]_vars

(***************************************************************************)
(* What the claims read off the worker.                                    *)
(***************************************************************************)
FilesOf(msg) == { Disk[msg.baselineImagePath], Disk[msg.candidateImagePath] }

\* Both images exist, decode, and carry no sidecar or a sidecar with a viewport.
WellFormed(msg) ==
    \A file \in FilesOf(msg) :
        file.exists /\ file.decodable /\ file.sidecar \in {"none", "ok"}

\* An image file exists but its sidecar is not JSON or it cannot be decoded.
LoadFails(msg) ==
    \E file \in FilesOf(msg) :
        file.exists /\ (file.sidecar = "malformed" \/ ~file.decodable)

RequestsSoFar ==
    { jobs[id].msg : id \in DOMAIN jobs } \cup { inbox[i] : i \in DOMAIN inbox }

(***************************************************************************)
(* C4, Job protocol: the worker sends exactly one response per request and *)
(* does not start on the next request until the response to the previous   *)
(* one has been sent, so responses leave in the order the requests         *)
(* arrived.  Stated for requests whose images all exist and decode.        *)
(***************************************************************************)
C4_JobProtocol ==
    (\A msg \in RequestsSoFar : WellFormed(msg))
    => /\ \A id \in DOMAIN jobs : id > 1 => jobs[id - 1].handler = "responded"
       /\ \A i \in DOMAIN outbox : outbox[i].job = i
       /\ \A id \in DOMAIN jobs :
             jobs[id].handler # "awaiting"
             => Cardinality({ i \in DOMAIN outbox : outbox[i].job = id }) = 1

(***************************************************************************)
(* C5, Error propagation: when an image file exists but its sidecar is     *)
(* malformed or it cannot be decoded, the failure propagates out of        *)
(* diffImagesAsync: the job yields no DiffResult, and once no read of the  *)
(* job is outstanding its promise is rejected, not left pending.           *)
(***************************************************************************)
C5_ErrorPropagation ==
    \A id \in DOMAIN jobs :
        LoadFails(jobs[id].msg)
        => /\ jobs[id].handler # "responded"
           /\ (\A side \in {"baseline", "candidate"} : jobs[id].loads[side] # "reading")
              => jobs[id].promise = "rejected"

====
